---- MODULE Spec2Model ----
(***************************************************************************)
(* Host side of the file contract revision protocol:                       *)
(* modules/host/negotiaterevisecontract.go.                                *)
(*                                                                         *)
(* Several renter connections (sessions) run managedRPCReviseContract      *)
(* against the one storage obligation of a contract.  A session fetches    *)
(* the obligation, locks it, and runs managedRevisionIteration in a loop.  *)
(* Each step of a session that talks to the peer or to the host's shared   *)
(* state is one action; pc[s] is the position of session s in the code.    *)
(***************************************************************************)
EXTENDS Integers, Sequences, FiniteSets, TLC

(***************************************************************************)
(* Bounds of the model.                                                    *)
(***************************************************************************)
NumSessions == 2      \* concurrent connections revising the same contract
MaxRounds == 2        \* revision rounds started, over all sessions
MaxBatch == 2         \* modifications in one batch (settings.MaxReviseBatchSize)
MaxRoots == 1         \* sector roots the obligation holds while sessions run
BatchLen == 3         \* modifications of the batches processed whole
ProbeRoots == 3       \* sector roots of the lists one modification is tried on
MaxHeight == 0        \* highest h.blockHeight a round reads while sessions run
ProofDeadline == 1    \* so.proofDeadline() of the contract
MaxRevNum == 1        \* highest revision number a renter proposes
SectorSize == 2       \* modules.SectorSize, in bytes, scaled down from 1 << 22
HeightBits == 2       \* width of types.BlockHeight, scaled down from 64
UploadPrice == 1      \* settings.MinimumUploadBandwidthPrice
StoragePrice == 2     \* settings.MinimumStoragePrice
CollateralPrice == 3  \* settings.Collateral

Sessions == 1..NumSessions
Byte == {0, 1}

Nil == "nil"
ErrStopResponse == "ErrStopResponse"
errBadModificationIndex == "errBadModificationIndex"
errBadSectorSize == "errBadSectorSize"
errIllegalOffsetAndLength == "errIllegalOffsetAndLength"
errLargeSector == "errLargeSector"
errUnknownModification == "errUnknownModification"
errRenterOverreach == "renter cannot cover the whole transaction"
errObligationLocked == "errObligationLocked"
errObligationUnlocked == "errObligationUnlocked"
errIO == "errIO"
errRejected == "errRejected"
errReadSector == "errReadSector"
errSign == "errSign"
errStandaloneInvalid == "errStandaloneInvalid"
errModifyObligation == "errModifyObligation"
errVerifyRevision == "errVerifyRevision"

ActionDelete == "ActionDelete"
ActionInsert == "ActionInsert"
ActionModify == "ActionModify"
ActionOther == "ActionOther"
ActionTypes == {ActionDelete, ActionInsert, ActionModify, ActionOther}

ObligationID == "fcid"

VARIABLES
    db,                        \* the obligation as persisted by the host
    lockedStorageObligations,  \* h.lockedStorageObligations
    lastRevision,              \* history: the revision of the last committed round
    rounds,                    \* history: rounds started so far, all sessions
    pc,                        \* position of each session
    so,                        \* each session's *storageObligation
    rnd,                       \* each session's locals of managedRevisionIteration
    wire,                      \* history: the wire events of each session's current round
    roundStart,                \* history: so as it was when the current round began
    ret,                       \* what managedRPCReviseContract returned (or will return)
    rejection,                 \* history: the reason of the rejection frame written
    locks,                     \* history: successful calls of lockStorageObligation
    unlocks,                   \* history: calls of unlockStorageObligation
    probe                      \* history: the modification tried and the list before it

vars == <<db, lockedStorageObligations, lastRevision, rounds,
          pc, so, rnd, wire, roundStart, ret, rejection, locks, unlocks, probe>>

(***************************************************************************)
(* Data.                                                                   *)
(***************************************************************************)
\* all byte strings of a length in lens
Bytes(lens) == UNION {[1..n -> Byte] : n \in lens}

\* a full sector
Sectors == Bytes({SectorSize})

RECURSIVE MerkleSum(_)
MerkleSum(data) ==
    IF data = <<>> THEN 0
    ELSE Head(data) + 2 * MerkleSum(Tail(data))

\* crypto.MerkleRoot of a sector: a collision-free hash of the bytes
MerkleRoot(data) == 1 + MerkleSum(data)

Hashes == {MerkleRoot(d) : d \in Sectors}

\* h.readSector on success: the stored sector whose root is the one asked for
readSector(root) == CHOOSE d \in Sectors : MerkleRoot(d) = root

\* a wrong copy: the data lands at the start of the sector whatever the offset
CopyAtStart(sector, offset, data) ==
    [i \in 1..Len(sector) |-> IF i <= Len(data) THEN data[i] ELSE sector[i]]

\* copy(sector[offset:], data)
CopyAt(sector, offset, data) ==
    [i \in 1..Len(sector) |->
        IF i > offset /\ i - offset <= Len(data) THEN data[i - offset]
        ELSE sector[i]]

\* a wrong delete: the last root is dropped whatever the index
DeleteLast(roots, i) == SubSeq(roots, 1, Len(roots) - 1)

\* append(roots[0:i], roots[i+1:]...)
DeleteAt(roots, i) == SubSeq(roots, 1, i) \o SubSeq(roots, i + 2, Len(roots))

\* a wrong insert: the new root is appended whatever the index
InsertAtEnd(roots, i, newRoot) == roots \o <<newRoot>>

\* append(roots[:i], append([]crypto.Hash{newRoot}, roots[i:]...)...)
InsertAt(roots, i, newRoot) ==
    SubSeq(roots, 1, i) \o (<<newRoot>> \o SubSeq(roots, i + 1, Len(roots)))

\* roots[i] = newRoot
ReplaceAt(roots, i, newRoot) == [roots EXCEPT ![i + 1] = newRoot]

\* so.proofDeadline() - blockHeight, in the unsigned arithmetic of BlockHeight
BlocksRemaining(height) == (ProofDeadline - height) % (2 ^ HeightBits)

Obligation(roots, anticipated, confirmed, risked) ==
    [SectorRoots |-> roots, AnticipatedRevenue |-> anticipated,
     ConfirmedRevenue |-> confirmed, RiskedCollateral |-> risked]

NoObligation == Obligation(<<>>, 0, 0, 0)

\* the merkle root of a list of sector roots, as a contract revision commits to it
RECURSIVE RootOfRoots(_)
RootOfRoots(roots) ==
    IF roots = <<>> THEN 0
    ELSE Head(roots) + (Cardinality(Hashes) + 1) * RootOfRoots(Tail(roots))

Revision(num, root, size) ==
    [NewRevisionNumber |-> num, NewFileMerkleRoot |-> root, NewFileSize |-> size]

Event(ev, arg) == [ev |-> ev, arg |-> arg]

\* the locals of managedRevisionIteration as a round begins; passed is history:
\* the checks after the batch that the round has passed, in order
FreshRound ==
    [blockHeight |-> 0, modLen |-> 0, k |-> 0,
     bandwidthRevenue |-> 0, storageRevenue |-> 0, collateralRisked |-> 0,
     sectorsRemoved |-> <<>>, sectorsGained |-> <<>>, gainedSectorData |-> <<>>,
     revision |-> Revision(0, 0, 0), passed |-> <<>>, committed |-> FALSE]

\* the modifications a renter may send against lists of at most max roots:
\* any type, any index up to one past the append position, any offset up to
\* one past the sector, any data up to one byte more than a sector
Modifications(max) ==
    [Type : ActionTypes, SectorIndex : 0..(max + 1),
     Offset : 0..(SectorSize + 1), Data : Bytes(0..(SectorSize + 1))]

\* while sessions run the renter's data is all ones and is empty, a sector
\* or a byte more than a sector
SessionData == {[i \in 1..l |-> 1] : l \in {0, SectorSize, SectorSize + 1}}

NoProbe == [tried |-> FALSE]

\* lists of at most n sector roots
RootLists(n) == UNION {[1..l -> Hashes] : l \in 0..n}

\* the contract starts with one stored sector, all zero bytes
InitialRoots == <<MerkleRoot([i \in 1..SectorSize |-> 0])>>

Init ==
    /\ db = Obligation(InitialRoots, 0, 0, 0)
    /\ lastRevision = Revision(0, RootOfRoots(InitialRoots), Len(InitialRoots) * SectorSize)
    /\ probe = NoProbe
    /\ lockedStorageObligations = {}
    /\ rounds = 0
    /\ pc = [s \in Sessions |-> "recent"]
    /\ so = [s \in Sessions |-> NoObligation]
    /\ rnd = [s \in Sessions |-> FreshRound]
    /\ wire = [s \in Sessions |-> <<>>]
    /\ roundStart = [s \in Sessions |-> NoObligation]
    /\ ret = [s \in Sessions |-> Nil]
    /\ rejection = [s \in Sessions |-> Nil]
    /\ locks = [s \in Sessions |-> 0]
    /\ unlocks = [s \in Sessions |-> 0]

(***************************************************************************)
(* Calls into the rest of the host and into package modules.               *)
(***************************************************************************)
\* h.lockStorageObligation: fails when the obligation is already locked
lockStorageObligation == 
    IF ObligationID \in lockedStorageObligations THEN errObligationLocked ELSE Nil

\* h.unlockStorageObligation: fails when the obligation is not locked
unlockStorageObligation ==
    IF ObligationID \in lockedStorageObligations THEN Nil ELSE errObligationUnlocked

\* modules.ReadNegotiationAcceptance: the error it returns for what the peer sent
ReadNegotiationAcceptance(signal) ==
    CASE signal = "accept" -> Nil
      [] signal = "stop" -> ErrStopResponse
      [] signal = "reject" -> errRejected
      [] OTHER -> errIO

\* modules.WriteNegotiationRejection: the error it returns after writing the frame
WriteNegotiationRejection(err) == err

\* verifyRevision: every check is still a comment, the function returns nil
verifyRevision(o, revision, storageRevenue, bandwidthRevenue, collateralRisked) == Nil

(***************************************************************************)
(* managedRevisionIteration, lines 93-164: one pass of the loop over the   *)
(* batch, for modification m against obligation o with round locals r.     *)
(* readOK is whether h.readSector succeeds.  The result is the error the   *)
(* closure returns (Nil to go on) and the obligation and locals after it.  *)
(***************************************************************************)
ApplyDelete(o, r, m) ==
    [err |-> Nil,
     so |-> [o EXCEPT !.SectorRoots = DeleteAt(o.SectorRoots, m.SectorIndex)],
     rnd |-> [r EXCEPT !.sectorsRemoved =
                          Append(@, o.SectorRoots[m.SectorIndex + 1])]]

ApplyInsert(o, r, m) ==
    LET blocksRemaining == BlocksRemaining(r.blockHeight)
        blockBytesCurrency == blocksRemaining * SectorSize
        newRoot == MerkleRoot(m.Data)
    IN  [err |-> Nil,
         so |-> [o EXCEPT !.SectorRoots = InsertAt(o.SectorRoots, m.SectorIndex, newRoot)],
         rnd |-> [r EXCEPT
                     !.bandwidthRevenue = @ + UploadPrice * SectorSize,
                     !.storageRevenue = @ + StoragePrice * blockBytesCurrency,
                     !.collateralRisked = @ + CollateralPrice * blockBytesCurrency,
                     !.sectorsGained = Append(@, newRoot),
                     !.gainedSectorData = Append(@, m.Data)]]

\* a wrong Modify: it accrues storage revenue and collateral like an Insert
ApplyModifyAsInsert(o, r, m) ==
    LET old == o.SectorRoots[m.SectorIndex + 1]
        sector == CopyAt(readSector(old), m.Offset, m.Data)
        newRoot == MerkleRoot(sector)
        blockBytesCurrency == BlocksRemaining(r.blockHeight) * SectorSize
    IN  [err |-> Nil,
         so |-> [o EXCEPT !.SectorRoots = ReplaceAt(o.SectorRoots, m.SectorIndex, newRoot)],
         rnd |-> [r EXCEPT
                     !.bandwidthRevenue = @ + UploadPrice * SectorSize,
                     !.storageRevenue = @ + StoragePrice * blockBytesCurrency,
                     !.collateralRisked = @ + CollateralPrice * blockBytesCurrency,
                     !.sectorsRemoved = Append(@, old),
                     !.sectorsGained = Append(@, newRoot),
                     !.gainedSectorData = Append(@, sector)]]

ApplyModify(o, r, m) ==
    LET old == o.SectorRoots[m.SectorIndex + 1]
        sector == CopyAt(readSector(old), m.Offset, m.Data)
        newRoot == MerkleRoot(sector)
    IN  [err |-> Nil,
         so |-> [o EXCEPT !.SectorRoots = ReplaceAt(o.SectorRoots, m.SectorIndex, newRoot)],
         rnd |-> [r EXCEPT
                     !.bandwidthRevenue = @ + UploadPrice * SectorSize,
                     !.sectorsRemoved = Append(@, old),
                     !.sectorsGained = Append(@, newRoot),
                     !.gainedSectorData = Append(@, sector)]]

\* a wrong loop body: an Insert at the end of the list is refused
ApplyModificationNoAppend(o, r, m, readOK) ==
    LET n == Len(o.SectorRoots)
        fail(e) == [err |-> e, so |-> o, rnd |-> r]
    IN  IF m.SectorIndex >= n THEN fail(errBadModificationIndex)
        ELSE IF Len(m.Data) > SectorSize THEN fail(errLargeSector)
        ELSE IF m.Type = ActionDelete THEN ApplyDelete(o, r, m)
        ELSE IF m.Type = ActionInsert THEN
            IF Len(m.Data) # SectorSize THEN fail(errBadSectorSize)
            ELSE ApplyInsert(o, r, m)
        ELSE IF m.Type = ActionModify THEN
            IF m.Offset > SectorSize \/ m.Offset + Len(m.Data) > SectorSize
            THEN fail(errIllegalOffsetAndLength)
            ELSE IF ~readOK THEN fail(errReadSector)
            ELSE ApplyModify(o, r, m)
        ELSE fail(errUnknownModification)

\* a wrong loop body: an Insert takes any payload that is not too large
ApplyModificationAnySize(o, r, m, readOK) ==
    LET n == Len(o.SectorRoots)
        fail(e) == [err |-> e, so |-> o, rnd |-> r]
    IN  IF m.Type = ActionInsert /\ m.SectorIndex > n THEN fail(errBadModificationIndex)
        ELSE IF m.Type # ActionInsert /\ m.SectorIndex >= n THEN fail(errBadModificationIndex)
        ELSE IF Len(m.Data) > SectorSize THEN fail(errLargeSector)
        ELSE IF m.Type = ActionDelete THEN ApplyDelete(o, r, m)
        ELSE IF m.Type = ActionInsert THEN ApplyInsert(o, r, m)
        ELSE IF m.Type = ActionModify THEN
            IF m.Offset > SectorSize \/ m.Offset + Len(m.Data) > SectorSize
            THEN fail(errIllegalOffsetAndLength)
            ELSE IF ~readOK THEN fail(errReadSector)
            ELSE ApplyModify(o, r, m)
        ELSE fail(errUnknownModification)

ApplyModification(o, r, m, readOK) ==
    LET n == Len(o.SectorRoots)
        fail(e) == [err |-> e, so |-> o, rnd |-> r]
    IN  IF m.Type = ActionInsert /\ m.SectorIndex > n THEN fail(errBadModificationIndex)
        ELSE IF m.Type # ActionInsert /\ m.SectorIndex >= n THEN fail(errBadModificationIndex)
        ELSE IF Len(m.Data) > SectorSize THEN fail(errLargeSector)
        ELSE IF m.Type = ActionDelete THEN ApplyDelete(o, r, m)
        ELSE IF m.Type = ActionInsert THEN
            IF Len(m.Data) # SectorSize THEN fail(errBadSectorSize)
            ELSE ApplyInsert(o, r, m)
        ELSE IF m.Type = ActionModify THEN
            IF m.Offset > SectorSize \/ m.Offset + Len(m.Data) > SectorSize
            THEN fail(errIllegalOffsetAndLength)
            ELSE IF ~readOK THEN fail(errReadSector)
            ELSE ApplyModify(o, r, m)
        ELSE fail(errUnknownModification)

(***************************************************************************)
(* managedRPCReviseContract and the steps of managedRevisionIteration.     *)
(***************************************************************************)
Log(s, events) == wire' = [wire EXCEPT ![s] = @ \o events]

\* a wrong loop: the unlock is not deferred, and an iteration that fails
\* returns without it
IterationReturnsLocked(s, err) ==
    IF err = ErrStopResponse
    THEN /\ pc' = [pc EXCEPT ![s] = "return"]
         /\ ret' = [ret EXCEPT ![s] = Nil]
    ELSE IF err # Nil
    THEN /\ pc' = [pc EXCEPT ![s] = "done"]
         /\ ret' = [ret EXCEPT ![s] = err]
    ELSE /\ pc' = [pc EXCEPT ![s] = "loop"]
         /\ ret' = ret

\* a wrong loop: an iteration that fails ends the round, not the session
IterationReturnsRoundOnly(s, err) ==
    IF err = ErrStopResponse
    THEN /\ pc' = [pc EXCEPT ![s] = "return"]
         /\ ret' = [ret EXCEPT ![s] = Nil]
    ELSE /\ pc' = [pc EXCEPT ![s] = "loop"]
         /\ ret' = ret

\* a wrong loop: the stop response is an error like any other
IterationReturnsStopFails(s, err) ==
    IF err # Nil
    THEN /\ pc' = [pc EXCEPT ![s] = "return"]
         /\ ret' = [ret EXCEPT ![s] = err]
    ELSE /\ pc' = [pc EXCEPT ![s] = "loop"]
         /\ ret' = ret

\* lines 270-278: what the loop does with the error of an iteration
IterationReturns(s, err) ==
    IF err = ErrStopResponse
    THEN /\ pc' = [pc EXCEPT ![s] = "return"]
         /\ ret' = [ret EXCEPT ![s] = Nil]
    ELSE IF err # Nil
    THEN /\ pc' = [pc EXCEPT ![s] = "return"]
         /\ ret' = [ret EXCEPT ![s] = err]
    ELSE /\ pc' = [pc EXCEPT ![s] = "loop"]
         /\ ret' = ret

\* return modules.WriteNegotiationRejection(conn, err), after the events so far
Rejects(s, err, events) ==
    /\ Log(s, events \o <<Event("WriteRejection", err)>>)
    /\ rejection' = [rejection EXCEPT ![s] = err]
    /\ IterationReturns(s, WriteNegotiationRejection(err))

\* return err, after the events so far
Fails(s, err, events) ==
    /\ Log(s, events)
    /\ rejection' = rejection
    /\ IterationReturns(s, err)

\* lines 251-254: the obligation is fetched before it is locked
RPCRecentRevision(s) ==
    /\ pc[s] = "recent"
    /\ \E ok \in BOOLEAN :
          IF ok
          THEN /\ so' = [so EXCEPT ![s] = db]
               /\ pc' = [pc EXCEPT ![s] = "lock"]
               /\ ret' = ret
          ELSE /\ so' = so
               /\ pc' = [pc EXCEPT ![s] = "done"]
               /\ ret' = [ret EXCEPT ![s] = errIO]
    /\ UNCHANGED <<db, lockedStorageObligations, lastRevision, rounds,
                   rnd, wire, roundStart, rejection, locks, unlocks, probe>>

\* a wrong lock step: the error of lockStorageObligation is not looked at
LockObligationUnchecked(s) ==
    /\ pc[s] = "lock"
    /\ pc' = [pc EXCEPT ![s] = "loop"]
    /\ lockedStorageObligations' = lockedStorageObligations \cup {ObligationID}
    /\ locks' = [locks EXCEPT ![s] = @ + 1]
    /\ UNCHANGED <<db, lastRevision, rounds, so, rnd, wire, roundStart, ret,
                   rejection, unlocks, probe>>

\* lines 256-266: lock the obligation, defer the unlock
LockObligation(s) ==
    /\ pc[s] = "lock"
    /\ LET err == lockStorageObligation
       IN  IF err # Nil
           THEN /\ pc' = [pc EXCEPT ![s] = "done"]
                /\ ret' = [ret EXCEPT ![s] = err]
                /\ so' = [so EXCEPT ![s] = NoObligation]
                /\ lockedStorageObligations' = lockedStorageObligations
                /\ locks' = locks
           ELSE /\ pc' = [pc EXCEPT ![s] = "loop"]
                /\ ret' = ret
                /\ so' = so
                /\ lockedStorageObligations' = lockedStorageObligations \cup {ObligationID}
                /\ locks' = [locks EXCEPT ![s] = @ + 1]
    /\ UNCHANGED <<db, lastRevision, rounds, rnd, wire, roundStart,
                   rejection, unlocks, probe>>

\* a wrong loop: the accumulators of the iteration live across rounds
LoopHeadKeepsLocals(s) ==
    /\ pc[s] = "loop"
    /\ \E inTime \in BOOLEAN :
          IF inTime /\ rounds < MaxRounds
          THEN /\ pc' = [pc EXCEPT ![s] = "settings"]
               /\ rounds' = rounds + 1
               /\ rnd' = [rnd EXCEPT ![s].k = 0, ![s].modLen = 0,
                                     ![s].committed = FALSE]
               /\ wire' = [wire EXCEPT ![s] = <<>>]
               /\ roundStart' = [roundStart EXCEPT ![s] = so[s]]
               /\ ret' = ret
          ELSE /\ pc' = [pc EXCEPT ![s] = "return"]
               /\ ret' = [ret EXCEPT ![s] = Nil]
               /\ UNCHANGED <<rounds, rnd, wire, roundStart>>
    /\ UNCHANGED <<db, lockedStorageObligations, lastRevision, so,
                   rejection, locks, unlocks, probe>>

\* line 270: the loop condition; a true condition begins managedRevisionIteration
\* with fresh locals
LoopHead(s) ==
    /\ pc[s] = "loop"
    /\ \E inTime \in BOOLEAN :
          IF inTime /\ rounds < MaxRounds
          THEN /\ pc' = [pc EXCEPT ![s] = "settings"]
               /\ rounds' = rounds + 1
               /\ rnd' = [rnd EXCEPT ![s] = FreshRound]
               /\ wire' = [wire EXCEPT ![s] = <<>>]
               /\ roundStart' = [roundStart EXCEPT ![s] = so[s]]
               /\ ret' = ret
          ELSE /\ pc' = [pc EXCEPT ![s] = "return"]
               /\ ret' = [ret EXCEPT ![s] = Nil]
               /\ UNCHANGED <<rounds, rnd, wire, roundStart>>
    /\ UNCHANGED <<db, lockedStorageObligations, lastRevision, so,
                   rejection, locks, unlocks, probe>>

\* lines 52-58: h.managedRPCSettings
SendSettings(s) ==
    /\ pc[s] = "settings"
    /\ \E ok \in BOOLEAN :
          IF ok
          THEN /\ Log(s, <<Event("WriteSettings", Nil)>>)
               /\ pc' = [pc EXCEPT ![s] = "acceptance"]
               /\ UNCHANGED <<ret, rejection>>
          ELSE Fails(s, errIO, <<>>)
    /\ UNCHANGED <<db, lockedStorageObligations, lastRevision, rounds,
                   so, rnd, roundStart, locks, unlocks, probe>>

\* lines 63-73: the peer accepts, rejects or stops; then the host state is
\* read, blockHeight being whatever height the chain has reached
ReadAcceptance(s) ==
    /\ pc[s] = "acceptance"
    /\ \E signal \in {"accept", "stop", "reject", "ioerr"}, blockHeight \in 0..MaxHeight :
          LET err == ReadNegotiationAcceptance(signal)
              events == <<Event("ReadAcceptance", signal)>>
          IN  IF err # Nil
              THEN /\ Fails(s, err, events)
                   /\ rnd' = rnd
              ELSE /\ Log(s, events)
                   /\ pc' = [pc EXCEPT ![s] = "modifications"]
                   /\ rnd' = [rnd EXCEPT ![s].blockHeight = blockHeight]
                   /\ UNCHANGED <<ret, rejection>>
    /\ UNCHANGED <<db, lockedStorageObligations, lastRevision, rounds,
                   so, roundStart, locks, unlocks, probe>>

\* lines 78-82: the batch is read (n < 0: the read fails); modLen is its length,
\* and each modification is drawn when the loop reaches it
ReadModifications(s) ==
    /\ pc[s] = "modifications"
    /\ \E n \in -1..MaxBatch :
          IF n < 0
          THEN /\ Fails(s, errIO, <<>>)
               /\ rnd' = rnd
          ELSE /\ Log(s, <<Event("ReadModifications", Nil)>>)
               /\ rnd' = [rnd EXCEPT ![s].modLen = n]
               /\ pc' = [pc EXCEPT ![s] = IF n = 0 THEN "revision" ELSE "process"]
               /\ UNCHANGED <<ret, rejection>>
    /\ UNCHANGED <<db, lockedStorageObligations, lastRevision, rounds,
                   so, roundStart, locks, unlocks, probe>>

\* lines 93-167: the loop takes modification m of the batch; an error of the
\* closure is written to the peer as a rejection
Process(s, m, readOK) ==
    LET res == ApplyModification(so[s], rnd[s], m, readOK)
        k == rnd[s].k + 1
    IN  /\ so' = [so EXCEPT ![s] = res.so]
        /\ rnd' = [rnd EXCEPT ![s] = [res.rnd EXCEPT !.k = k]]
        /\ IF res.err # Nil
           THEN Rejects(s, res.err, <<>>)
           ELSE /\ pc' = [pc EXCEPT ![s] =
                             IF k = rnd[s].modLen THEN "revision" ELSE "process"]
                /\ UNCHANGED <<wire, ret, rejection>>

ProcessModification(s) ==
    /\ pc[s] = "process"
    /\ ~probe.tried
    /\ \E m \in Modifications(MaxRoots), readOK \in BOOLEAN :
          /\ m.Data \in SessionData
          /\ Process(s, m, readOK)
          /\ Len(so'[s].SectorRoots) <= MaxRoots
    /\ UNCHANGED <<db, lockedStorageObligations, lastRevision, rounds,
                   roundStart, locks, unlocks, probe>>

\* the revisions a renter may propose in this round: any revision number, and
\* the merkle root and size either of the list as the batch left it or of the
\* list the round began with
Proposals(s) ==
    {Revision(num, RootOfRoots(roots), Len(roots) * SectorSize) :
        num \in 0..MaxRevNum,
        roots \in {so[s].SectorRoots, roundStart[s].SectorRoots}}

\* lines 170-184: the proposed revision is read and verified
ReadRevision(s) ==
    /\ pc[s] = "revision"
    /\ \E readOK \in BOOLEAN, writeOK \in BOOLEAN, revision \in Proposals(s) :
          LET err == verifyRevision(so[s], revision, rnd[s].storageRevenue,
                                    rnd[s].bandwidthRevenue, rnd[s].collateralRisked)
              read == <<Event("ReadRevision", Nil)>>
          IN  IF ~readOK
              THEN /\ Fails(s, errIO, <<>>)
                   /\ rnd' = rnd
              ELSE /\ rnd' = [rnd EXCEPT
                              ![s].revision = revision,
                              ![s].passed = IF err = Nil THEN Append(@, "verifyRevision")
                                            ELSE @]
                   /\ IF err # Nil THEN Rejects(s, err, read)
                      ELSE IF ~writeOK THEN Fails(s, errIO, read)
                      ELSE /\ Log(s, read \o <<Event("WriteAcceptance", Nil)>>)
                           /\ pc' = [pc EXCEPT ![s] = "renterSig"]
                           /\ UNCHANGED <<ret, rejection>>
    /\ UNCHANGED <<db, lockedStorageObligations, lastRevision, rounds,
                   so, roundStart, locks, unlocks, probe>>

\* history: the checks of lines 209-225 the round passed with these outcomes
PassedAtSignature(signOK, standaloneValid, WholeTransaction) ==
    IF ~(signOK /\ standaloneValid) THEN <<>>
    ELSE IF WholeTransaction THEN <<"StandaloneValid">>
    ELSE <<"StandaloneValid", "CoveredFields">>

\* a wrong signature step: the renter's covered fields are not looked at
ReadRenterSigAnyCoverage(s) ==
    /\ pc[s] = "renterSig"
    /\ \E readOK \in BOOLEAN, WholeTransaction \in BOOLEAN,
          signOK \in BOOLEAN, standaloneValid \in BOOLEAN :
          LET read == <<Event("ReadRenterSig", Nil)>>
          IN  IF ~readOK
              THEN /\ Fails(s, errIO, <<>>)
                   /\ rnd' = rnd
              ELSE /\ rnd' = [rnd EXCEPT ![s].passed = @ \o PassedAtSignature(
                                        signOK, standaloneValid, WholeTransaction)]
                   /\ IF ~signOK THEN Fails(s, errSign, read)
                      ELSE IF ~standaloneValid THEN Rejects(s, errStandaloneInvalid, read)
                      ELSE /\ Log(s, read)
                           /\ pc' = [pc EXCEPT ![s] = "commit"]
                           /\ UNCHANGED <<ret, rejection>>
    /\ UNCHANGED <<db, lockedStorageObligations, lastRevision, rounds,
                   so, roundStart, locks, unlocks, probe>>

\* lines 188-225: the renter's signature is read, the host signs, the
\* transaction is validated, the renter's covered fields are checked
ReadRenterSig(s) ==
    /\ pc[s] = "renterSig"
    /\ \E readOK \in BOOLEAN, WholeTransaction \in BOOLEAN,
          signOK \in BOOLEAN, standaloneValid \in BOOLEAN :
          LET read == <<Event("ReadRenterSig", Nil)>>
          IN  IF ~readOK
              THEN /\ Fails(s, errIO, <<>>)
                   /\ rnd' = rnd
              ELSE /\ rnd' = [rnd EXCEPT ![s].passed = @ \o PassedAtSignature(
                                        signOK, standaloneValid, WholeTransaction)]
                   /\ IF ~signOK THEN Fails(s, errSign, read)
                      ELSE IF ~standaloneValid THEN Rejects(s, errStandaloneInvalid, read)
                      ELSE IF WholeTransaction THEN Fails(s, errRenterOverreach, read)
                      ELSE /\ Log(s, read)
                           /\ pc' = [pc EXCEPT ![s] = "commit"]
                           /\ UNCHANGED <<ret, rejection>>
    /\ UNCHANGED <<db, lockedStorageObligations, lastRevision, rounds,
                   so, roundStart, locks, unlocks, probe>>

\* lines 226-228
AddRevenue(o, r) ==
    [o EXCEPT !.AnticipatedRevenue = @ + r.storageRevenue,
              !.ConfirmedRevenue = @ + r.bandwidthRevenue,
              !.RiskedCollateral = @ + r.collateralRisked]

\* lines 226-232: the counters are updated, then h.modifyStorageObligation
\* persists the obligation or fails
Commit(s) ==
    /\ pc[s] = "commit"
    /\ so' = [so EXCEPT ![s] = AddRevenue(so[s], rnd[s])]
    /\ \E ok \in BOOLEAN :
          IF ok
          THEN /\ db' = so'[s]
               /\ lastRevision' = rnd[s].revision
               /\ rnd' = [rnd EXCEPT
                             ![s].committed = TRUE,
                             ![s].passed = Append(@, "modifyStorageObligation")]
               /\ pc' = [pc EXCEPT ![s] = "hostSig"]
               /\ UNCHANGED <<wire, ret, rejection>>
          ELSE /\ Rejects(s, errModifyObligation, <<>>)
               /\ UNCHANGED <<db, lastRevision, rnd>>
    /\ UNCHANGED <<lockedStorageObligations, rounds, roundStart,
                   locks, unlocks, probe>>

\* a wrong last step: the host's signature is written before the acceptance
SendSignatureFirst(s) ==
    /\ pc[s] = "hostSig"
    /\ \E written \in 0..2 :
          IF written = 0 THEN Fails(s, errIO, <<>>)
          ELSE IF written = 1 THEN Fails(s, errIO, <<Event("WriteHostSignature", Nil)>>)
          ELSE Fails(s, Nil, <<Event("WriteHostSignature", Nil),
                               Event("WriteAcceptance", Nil)>>)
    /\ UNCHANGED <<db, lockedStorageObligations, lastRevision, rounds,
                   so, rnd, roundStart, locks, unlocks, probe>>

\* lines 236-240: the acceptance and the host's signature are written
\* (written: how many of the two writes succeed)
SendSignature(s) ==
    /\ pc[s] = "hostSig"
    /\ \E written \in 0..2 :
          IF written = 0 THEN Fails(s, errIO, <<>>)
          ELSE IF written = 1 THEN Fails(s, errIO, <<Event("WriteAcceptance", Nil)>>)
          ELSE Fails(s, Nil, <<Event("WriteAcceptance", Nil),
                               Event("WriteHostSignature", Nil)>>)
    /\ UNCHANGED <<db, lockedStorageObligations, lastRevision, rounds,
                   so, rnd, roundStart, locks, unlocks, probe>>

\* lines 261-266: the deferred unlock runs as managedRPCReviseContract returns;
\* the connection and the session's locals are gone after it
DeferredUnlock(s) ==
    /\ pc[s] = "return"
    /\ lockedStorageObligations' =
          IF unlockStorageObligation = Nil
          THEN lockedStorageObligations \ {ObligationID}
          ELSE lockedStorageObligations
    /\ unlocks' = [unlocks EXCEPT ![s] = @ + 1]
    /\ pc' = [pc EXCEPT ![s] = "done"]
    /\ so' = [so EXCEPT ![s] = NoObligation]
    /\ rnd' = [rnd EXCEPT ![s] = FreshRound]
    /\ roundStart' = [roundStart EXCEPT ![s] = NoObligation]
    /\ UNCHANGED <<db, lastRevision, rounds, wire, ret, rejection, locks, probe>>

Step(s) ==
    \/ RPCRecentRevision(s)
    \/ LockObligation(s)
    \/ LoopHead(s)
    \/ SendSettings(s)
    \/ ReadAcceptance(s)
    \/ ReadModifications(s)
    \/ ProcessModification(s)
    \/ ReadRevision(s)
    \/ ReadRenterSig(s)
    \/ Commit(s)
    \/ SendSignature(s)
    \/ DeferredUnlock(s)

Next == \E s \in Sessions : Step(s)

Spec == Init /\ [][Next]_vars

(***************************************************************************)
(* One modification, tried on every list: session 1 holds the lock and is  *)
(* in the loop over a batch; the list, the block height of the round and   *)
(* the modification are drawn from all there are, and probe records the    *)
(* modification and the obligation and locals before it.                   *)
(***************************************************************************)
ProbeInit ==
    /\ \E roots \in RootLists(ProbeRoots), height \in 0..(2 ^ HeightBits - 1) :
          /\ db = Obligation(roots, 0, 0, 0)
          /\ so = [s \in Sessions |-> IF s = 1 THEN db ELSE NoObligation]
          /\ roundStart = so
          /\ lastRevision = Revision(0, RootOfRoots(roots), Len(roots) * SectorSize)
          /\ rnd = [s \in Sessions |->
                       IF s = 1 THEN [FreshRound EXCEPT !.blockHeight = height, !.modLen = 1]
                       ELSE FreshRound]
    /\ lockedStorageObligations = {ObligationID}
    /\ rounds = 1
    /\ pc = [s \in Sessions |-> IF s = 1 THEN "process" ELSE "done"]
    /\ wire = [s \in Sessions |->
                  IF s = 1 THEN <<Event("WriteSettings", Nil), Event("ReadAcceptance", "accept"),
                                  Event("ReadModifications", Nil)>>
                  ELSE <<>>]
    /\ ret = [s \in Sessions |-> IF s = 1 THEN Nil ELSE errObligationLocked]
    /\ rejection = [s \in Sessions |-> Nil]
    /\ locks = [s \in Sessions |-> IF s = 1 THEN 1 ELSE 0]
    /\ unlocks = [s \in Sessions |-> 0]
    /\ probe = NoProbe

TryModification ==
    /\ pc[1] = "process"
    /\ \E m \in Modifications(ProbeRoots), readOK \in BOOLEAN :
          /\ Process(1, m, readOK)
          /\ probe' = [tried |-> TRUE, modification |-> m, readOK |-> readOK,
                       so |-> so[1], rnd |-> rnd[1]]
    /\ UNCHANGED <<db, lockedStorageObligations, lastRevision, rounds,
                   roundStart, locks, unlocks>>

ProbeNext == TryModification

ProbeSpec == ProbeInit /\ [][ProbeNext]_vars

(***************************************************************************)
(* A whole batch, processed at every block height: session 1 holds the     *)
(* lock and is in the loop over a batch of up to BatchLen modifications;   *)
(* probe records the types of the modifications the loop has applied.      *)
(***************************************************************************)
NoBatch == [tried |-> FALSE, types |-> <<>>]

BatchInit ==
    /\ \E roots \in RootLists(MaxRoots), height \in 0..(2 ^ HeightBits - 1),
          n \in 1..BatchLen :
          /\ db = Obligation(roots, 0, 0, 0)
          /\ so = [s \in Sessions |-> IF s = 1 THEN db ELSE NoObligation]
          /\ roundStart = so
          /\ lastRevision = Revision(0, RootOfRoots(roots), Len(roots) * SectorSize)
          /\ rnd = [s \in Sessions |->
                       IF s = 1 THEN [FreshRound EXCEPT !.blockHeight = height, !.modLen = n]
                       ELSE FreshRound]
    /\ lockedStorageObligations = {ObligationID}
    /\ rounds = 1
    /\ pc = [s \in Sessions |-> IF s = 1 THEN "process" ELSE "done"]
    /\ wire = [s \in Sessions |->
                  IF s = 1 THEN <<Event("WriteSettings", Nil), Event("ReadAcceptance", "accept"),
                                  Event("ReadModifications", Nil)>>
                  ELSE <<>>]
    /\ ret = [s \in Sessions |-> IF s = 1 THEN Nil ELSE errObligationLocked]
    /\ rejection = [s \in Sessions |-> Nil]
    /\ locks = [s \in Sessions |-> IF s = 1 THEN 1 ELSE 0]
    /\ unlocks = [s \in Sessions |-> 0]
    /\ probe = NoBatch

NextOfBatch ==
    /\ pc[1] = "process"
    /\ \E m \in Modifications(MaxRoots + BatchLen), readOK \in BOOLEAN :
          /\ m.Data \in SessionData
          /\ Process(1, m, readOK)
          /\ probe' = IF pc'[1] = "return" THEN probe
                      ELSE [probe EXCEPT !.types = Append(@, m.Type)]
    /\ UNCHANGED <<db, lockedStorageObligations, lastRevision, rounds,
                   roundStart, locks, unlocks>>

BatchNext == NextOfBatch

BatchSpec == BatchInit /\ [][BatchNext]_vars

\* every step of a session ends: the peer's I/O runs under the deadline of
\* line 58 and the loop under the 1200 seconds of line 270
FairSpec == Spec /\ \A s \in Sessions : WF_vars(Step(s))

(***************************************************************************)
(* Properties.                                                             *)
(***************************************************************************)
\* the session is between its successful lockStorageObligation and its
\* unlockStorageObligation
Holding(s) ==
    pc[s] \in {"loop", "settings", "acceptance", "modifications", "process",
               "revision", "renterSig", "commit", "hostSig", "return"}

Last(seq) == seq[Len(seq)]

Happened(s, ev) == \E i \in 1..Len(wire[s]) : wire[s][i].ev = ev

BatchErrors ==
    {errBadModificationIndex, errLargeSector, errBadSectorSize,
     errIllegalOffsetAndLength, errUnknownModification}

\* C1: of the sessions that revise the same obligation at most one at a time is
\* between its successful lock and its unlock, so no two are in a round or at
\* the commit step together.
C1_OneSessionHoldsObligation ==
    \A s, t \in Sessions : s # t => ~(Holding(s) /\ Holding(t))

\* a session is at the commit step after another session held and released
\* the lock of the same obligation
C1_Witness ==
    \E s, t \in Sessions :
        s # t /\ pc[s] = "commit" /\ pc[t] = "done" /\ unlocks[t] = 1

C2_Safety ==
    /\ \A s \in Sessions :
          /\ unlocks[s] <= locks[s] /\ locks[s] <= 1
          /\ pc[s] = "done" => unlocks[s] = locks[s]
          /\ Holding(s) <=> (locks[s] = 1 /\ unlocks[s] = 0)
    /\ ObligationID \in lockedStorageObligations <=> \E s \in Sessions : Holding(s)

\* C2: a session that acquired the lock releases it exactly once as it ends,
\* whatever the exit path; a session that has returned holds no lock, the lock
\* is held only while some session is inside, and every session that acquired
\* the lock eventually releases it.
C2_LockReleasedOnEveryExit ==
    /\ []C2_Safety
    /\ \A s \in Sessions : (locks[s] = 1) ~> (unlocks[s] = 1)

\* a session has returned after its commit failed, and the lock is free again
C2_Witness ==
    \E s \in Sessions :
        /\ pc[s] = "done" /\ ret[s] = errModifyObligation
        /\ locks[s] = 1 /\ unlocks[s] = 1
        /\ lockedStorageObligations = {}

\* C3: when the batch fails with a validation error at some modification, the
\* obligation's SectorRoots are the list the batch started with.
C3_FailedBatchLeavesRoots ==
    \A s \in Sessions :
        (pc[s] = "return" /\ rejection[s] \in BatchErrors)
            => so[s].SectorRoots = roundStart[s].SectorRoots

\* the round ended without a successful commit, in one of the ways C4 lists
RoundFailed(s) ==
    /\ pc[s] = "return"
    /\ ~rnd[s].committed
    /\ ret[s] \in {errVerifyRevision, errStandaloneInvalid, errRenterOverreach,
                   errSign, errIO, errModifyObligation}

\* C4: a round that does not commit leaves SectorRoots, AnticipatedRevenue,
\* ConfirmedRevenue and RiskedCollateral of the obligation as they were when
\* the round started.
C4_FailedRoundLeavesObligation ==
    \A s \in Sessions : RoundFailed(s) => so[s] = roundStart[s]

\* C5: at every settled point the merkle root of the obligation's SectorRoots is
\* the merkle root of the last accepted revision, and that revision's file size
\* is len(SectorRoots) * SectorSize.
C5_RootsMatchRevision ==
    /\ lastRevision.NewFileMerkleRoot = RootOfRoots(db.SectorRoots)
    /\ lastRevision.NewFileSize = Len(db.SectorRoots) * SectorSize

\* C6: a proposed revision whose number is not greater than the prior
\* revision's is rejected: no round goes on to the acceptance message or the
\* commit with such a revision.
C6_RevisionNumberIncreases ==
    \A s \in Sessions :
        pc[s] \in {"renterSig", "commit"}
            => rnd[s].revision.NewRevisionNumber > lastRevision.NewRevisionNumber

\* C7: when the batch fails validation or the revision fails verification the
\* host writes a rejection frame with that reason and the session ends with
\* that error: the frame is the last wire event, the session is returning (or
\* has returned) that error, and no further round starts.
C7_RejectionEndsSession ==
    \A s \in Sessions :
        /\ rejection[s] # Nil =>
              /\ pc[s] \in {"return", "done"}
              /\ ret[s] = rejection[s]
              /\ Last(wire[s]) = Event("WriteRejection", rejection[s])
        /\ (pc[s] \in {"return", "done"}
              /\ ret[s] \in BatchErrors \cup {errVerifyRevision})
              => rejection[s] = ret[s]

\* a batch failed at its second modification and the session returned
C7_Witness ==
    \E s \in Sessions :
        /\ pc[s] = "done" /\ ret[s] = errBadModificationIndex
        /\ rejection[s] = errBadModificationIndex

\* C8: when the renter's signature covers the whole transaction the host sends
\* a rejection frame and ends the session with an error, and the round does
\* not commit: the counters are not updated, modifyStorageObligation is not
\* called and the host's signature is not written.
C8_OverreachRejected ==
    \A s \in Sessions :
        (pc[s] \in {"return", "done"} /\ ret[s] = errRenterOverreach) =>
            /\ Happened(s, "WriteRejection")
            /\ ~Happened(s, "WriteHostSignature")
            /\ pc[s] = "return" =>
                  /\ ~rnd[s].committed
                  /\ so[s].AnticipatedRevenue = roundStart[s].AnticipatedRevenue
                  /\ so[s].ConfirmedRevenue = roundStart[s].ConfirmedRevenue
                  /\ so[s].RiskedCollateral = roundStart[s].RiskedCollateral

\* the session's round ended as the peer's signal was read, with that signal
EndedAtSignal(s, signal) ==
    /\ pc[s] \in {"return", "done"}
    /\ wire[s] # <<>>
    /\ Last(wire[s]) = Event("ReadAcceptance", signal)

\* C9: a stop signal ends the session without error, no batch is read in that
\* round, the round does not mutate the obligation and the lock is released;
\* a rejection or an I/O failure at that step ends the session with that
\* error; only an acceptance lets the round go on.
C9_StopEndsSessionCleanly ==
    \A s \in Sessions :
        /\ EndedAtSignal(s, "stop") =>
              /\ ret[s] = Nil
              /\ ~Happened(s, "ReadModifications")
              /\ pc[s] = "return" => so[s] = roundStart[s]
              /\ pc[s] = "done" =>
                    /\ unlocks[s] = 1
                    /\ ObligationID \in lockedStorageObligations =>
                          \E t \in Sessions \ {s} : Holding(t)
        /\ EndedAtSignal(s, "reject") => ret[s] = errRejected
        /\ EndedAtSignal(s, "ioerr") => ret[s] = errIO
        /\ (wire[s] # <<>> /\ Last(wire[s]).ev = "ReadAcceptance"
              /\ Last(wire[s]).arg # "accept") => pc[s] \in {"return", "done"}
        /\ Happened(s, "ReadModifications") =>
              wire[s][2] = Event("ReadAcceptance", "accept")

\* a session stopped by the peer in its second round has returned nil
C9_Witness ==
    \E s \in Sessions :
        /\ EndedAtSignal(s, "stop") /\ pc[s] = "done" /\ ret[s] = Nil
        /\ db # Obligation(InitialRoots, 0, 0, 0)
        /\ unlocks[s] = 1

\* the modification tried is an Insert at an index up to the length of the
\* list, with a payload of SectorSize bytes
ValidInsert ==
    /\ probe.tried
    /\ probe.modification.Type = ActionInsert
    /\ probe.modification.SectorIndex <= Len(probe.so.SectorRoots)
    /\ Len(probe.modification.Data) = SectorSize

\* C10: a valid Insert at index i into a list of length n gives a list of
\* length n+1 with the hash of the payload at i, the elements before i
\* unchanged and the elements from i on moved up by one; the hash and the
\* payload are recorded as gained.
C10_InsertShiftsRoots ==
    ValidInsert =>
        LET old == probe.so.SectorRoots
            new == so[1].SectorRoots
            n == Len(old)
            i == probe.modification.SectorIndex
            data == probe.modification.Data
        IN  /\ pc[1] = "revision"
            /\ Len(new) = n + 1
            /\ new[i + 1] = MerkleRoot(data)
            /\ \A j \in 0..(i - 1) : new[j + 1] = old[j + 1]
            /\ \A j \in i..(n - 1) : new[j + 2] = old[j + 1]
            /\ rnd[1].sectorsGained = <<MerkleRoot(data)>>
            /\ rnd[1].gainedSectorData = <<data>>
            /\ rnd[1].sectorsRemoved = <<>>

\* an Insert between two different roots: one stays before it, one moves up
C10_Witness ==
    /\ ValidInsert
    /\ Len(probe.so.SectorRoots) = 2
    /\ probe.modification.SectorIndex = 1
    /\ probe.so.SectorRoots[1] # probe.so.SectorRoots[2]
    /\ Len(so[1].SectorRoots) = 3

\* the modification tried is a Delete at an index below the length of the
\* list, with a payload no longer than a sector
ValidDelete ==
    /\ probe.tried
    /\ probe.modification.Type = ActionDelete
    /\ probe.modification.SectorIndex < Len(probe.so.SectorRoots)
    /\ Len(probe.modification.Data) <= SectorSize

\* C11: a valid Delete at index i of a list of length n gives a list of length
\* n-1, the hash recorded as removed is the element that was at i, and the
\* other elements keep their order: the elements before i followed by the
\* elements after i.  Nothing is gained and no revenue accrues.
C11_DeleteKeepsOrder ==
    ValidDelete =>
        LET old == probe.so.SectorRoots
            new == so[1].SectorRoots
            n == Len(old)
            i == probe.modification.SectorIndex
        IN  /\ pc[1] = "revision"
            /\ Len(new) = n - 1
            /\ rnd[1].sectorsRemoved = <<old[i + 1]>>
            /\ \A j \in 0..(i - 1) : new[j + 1] = old[j + 1]
            /\ \A j \in (i + 1)..(n - 1) : new[j] = old[j + 1]
            /\ rnd[1].sectorsGained = <<>>
            /\ rnd[1].gainedSectorData = <<>>

\* Delete at 1 on three different roots [a, b, c] gave [a, c]
C11_Witness ==
    /\ ValidDelete
    /\ Len(probe.so.SectorRoots) = 3
    /\ probe.modification.SectorIndex = 1
    /\ Cardinality({probe.so.SectorRoots[j] : j \in 1..3}) = 3
    /\ so[1].SectorRoots = <<probe.so.SectorRoots[1], probe.so.SectorRoots[3]>>

\* the modification tried is a Modify at an index below the length of the
\* list, whose offset and data stay inside the sector, and the stored sector
\* was read
ValidModify ==
    /\ probe.tried
    /\ probe.modification.Type = ActionModify
    /\ probe.modification.SectorIndex < Len(probe.so.SectorRoots)
    /\ probe.modification.Offset + Len(probe.modification.Data) <= SectorSize
    /\ probe.readOK

\* C12: a valid Modify at index i with offset o and data of length l leaves the
\* length of the list and every element but the one at i as they were; the
\* element at i becomes the hash of the stored sector with bytes o..o+l-1
\* overwritten by the data; the old hash is recorded as removed, the new hash
\* and the whole new sector as gained; the new hash equals the old one only
\* when the data equals the bytes it overwrites.
C12_ModifyReplacesRoot ==
    ValidModify =>
        LET old == probe.so.SectorRoots
            new == so[1].SectorRoots
            n == Len(old)
            i == probe.modification.SectorIndex
            o == probe.modification.Offset
            data == probe.modification.Data
            l == Len(data)
            stored == readSector(old[i + 1])
            sector == [k \in 1..SectorSize |->
                          IF o < k /\ k <= o + l THEN data[k - o] ELSE stored[k]]
        IN  /\ pc[1] = "revision"
            /\ Len(new) = n
            /\ \A j \in 0..(n - 1) : j # i => new[j + 1] = old[j + 1]
            /\ new[i + 1] = MerkleRoot(sector)
            /\ rnd[1].sectorsRemoved = <<old[i + 1]>>
            /\ rnd[1].sectorsGained = <<MerkleRoot(sector)>>
            /\ rnd[1].gainedSectorData = <<sector>>
            /\ new[i + 1] = old[i + 1] <=> \A k \in 1..l : data[k] = stored[o + k]

\* the last byte of the middle sector of three was overwritten with another
\* value: the root in the middle changed
C12_Witness ==
    /\ ValidModify
    /\ Len(probe.so.SectorRoots) = 3
    /\ probe.modification.SectorIndex = 1
    /\ probe.modification.Offset = SectorSize - 1
    /\ Len(probe.modification.Data) = 1
    /\ so[1].SectorRoots[2] # probe.so.SectorRoots[2]
    /\ rnd[1].gainedSectorData[1][1] = readSector(probe.so.SectorRoots[2])[1]

\* the modification tried is an Insert, a Delete or a Modify whose index is out
\* of bounds for the list it is applied to
OutOfBounds ==
    /\ probe.tried
    /\ \/ /\ probe.modification.Type = ActionInsert
          /\ probe.modification.SectorIndex > Len(probe.so.SectorRoots)
       \/ /\ probe.modification.Type \in {ActionDelete, ActionModify}
          /\ probe.modification.SectorIndex >= Len(probe.so.SectorRoots)

\* the modification tried is an Insert at the end of the list
IsAppend ==
    /\ probe.tried
    /\ probe.modification.Type = ActionInsert
    /\ probe.modification.SectorIndex = Len(probe.so.SectorRoots)

\* C13: a modification whose index is out of bounds for the list as it is when
\* the modification is reached (Insert: index > length; Delete, Modify: index
\* >= length) is answered with errBadModificationIndex and leaves the list as
\* it found it; an Insert at the index equal to the length is not refused for
\* its index, and appends when its payload is a sector.
C13_BadIndexRejected ==
    /\ OutOfBounds =>
          /\ pc[1] = "return"
          /\ ret[1] = errBadModificationIndex
          /\ rejection[1] = errBadModificationIndex
          /\ so[1] = probe.so
    /\ IsAppend =>
          /\ ret[1] # errBadModificationIndex
          /\ Len(probe.modification.Data) = SectorSize =>
                /\ pc[1] = "revision"
                /\ so[1].SectorRoots =
                      probe.so.SectorRoots \o <<MerkleRoot(probe.modification.Data)>>

\* a Delete at the index equal to the length of a list of three was refused
C13_Witness ==
    /\ OutOfBounds
    /\ probe.modification.Type = ActionDelete
    /\ probe.modification.SectorIndex = 3
    /\ Len(probe.so.SectorRoots) = 3
    /\ Len(probe.modification.Data) = 0
    /\ ret[1] = errBadModificationIndex
    /\ Len(so[1].SectorRoots) = 3

\* the modification tried is an Insert with an index in bounds
InBoundsInsert ==
    /\ probe.tried
    /\ probe.modification.Type = ActionInsert
    /\ probe.modification.SectorIndex <= Len(probe.so.SectorRoots)

\* C14, as stated: every Insert with an index in bounds whose payload is not
\* SectorSize bytes long, shorter or longer, is rejected with errBadSectorSize.
C14_WrongSizeIsBadSectorSize ==
    (InBoundsInsert /\ Len(probe.modification.Data) # SectorSize)
        => ret[1] = errBadSectorSize

\* C14, amended: every Insert with an index in bounds whose payload is not
\* SectorSize bytes long is rejected and leaves the list as it found it; the
\* reason is errBadSectorSize for a shorter payload and errLargeSector for a
\* longer one.
C14_WrongSizeRejected ==
    (InBoundsInsert /\ Len(probe.modification.Data) # SectorSize) =>
        /\ pc[1] = "return"
        /\ so[1] = probe.so
        /\ rejection[1] = ret[1]
        /\ Len(probe.modification.Data) < SectorSize => ret[1] = errBadSectorSize
        /\ Len(probe.modification.Data) > SectorSize => ret[1] = errLargeSector

\* an Insert at the end of a list of three with a payload one byte short was
\* rejected
C14_Witness ==
    /\ InBoundsInsert
    /\ probe.modification.SectorIndex = 3
    /\ Len(probe.modification.Data) = SectorSize - 1
    /\ ret[1] = errBadSectorSize
    /\ pc[1] = "return"

\* how many of the modifications applied so far are of type t
Applied(t) == Cardinality({i \in 1..Len(probe.types) : probe.types[i] = t})

\* proofDeadline - blockHeight as the uint64 subtraction of line 122 gives it
UnsignedBlocks(height) ==
    IF height <= ProofDeadline THEN ProofDeadline - height
    ELSE ProofDeadline - height + 2 ^ HeightBits

\* C15: after a batch is processed without error the round's deltas are
\* bandwidthRevenue = uploadPrice * SectorSize * (Inserts + Modifies),
\* storageRevenue = storagePrice * (proofDeadline - blockHeight) * SectorSize
\* * Inserts and collateralRisked = collateral * (proofDeadline - blockHeight)
\* * SectorSize * Inserts, the difference being that of line 122: a Delete
\* adds nothing, a Modify adds bandwidth revenue only, and the order of the
\* modifications does not matter.
C15_DeltasFollowCounts ==
    (pc[1] = "revision" /\ Len(probe.types) = rnd[1].modLen) =>
        LET inserts == Applied(ActionInsert)
            modifies == Applied(ActionModify)
            blocks == UnsignedBlocks(rnd[1].blockHeight)
        IN  /\ inserts + modifies + Applied(ActionDelete) = rnd[1].modLen
            /\ rnd[1].bandwidthRevenue = UploadPrice * SectorSize * (inserts + modifies)
            /\ rnd[1].storageRevenue = StoragePrice * blocks * SectorSize * inserts
            /\ rnd[1].collateralRisked = CollateralPrice * blocks * SectorSize * inserts

\* a batch of a Modify, an Insert and a Delete was processed one block before
\* the proof deadline
C15_Witness ==
    /\ pc[1] = "revision"
    /\ probe.types = <<ActionModify, ActionInsert, ActionDelete>>
    /\ rnd[1].blockHeight = ProofDeadline - 1
    /\ rnd[1].bandwidthRevenue = 2 * UploadPrice * SectorSize
    /\ rnd[1].storageRevenue = StoragePrice * SectorSize
    /\ rnd[1].collateralRisked = CollateralPrice * SectorSize

\* the wire events of a round that runs to its end, in the order of the code
RoundOrder ==
    <<"WriteSettings", "ReadAcceptance", "ReadModifications", "ReadRevision",
      "WriteAcceptance", "ReadRenterSig", "WriteAcceptance", "WriteHostSignature">>

\* the places of RoundOrder at which a rejection may be written instead: after
\* the batch, after the revision, after the renter's signature
RejectionPlaces == {4, 5, 7}

\* the index of the first event ev on the wire of the session's round (0: none)
FirstAt(s, ev) ==
    IF Happened(s, ev)
    THEN CHOOSE i \in 1..Len(wire[s]) :
            /\ wire[s][i].ev = ev
            /\ \A j \in 1..(i - 1) : wire[s][j].ev # ev
    ELSE 0

\* C16: within a round the wire events of the host come in the fixed order
\* settings sent, signal read, batch read, revision read, acceptance or
\* rejection written, renter signature read, acceptance or rejection written,
\* host signature written; a rejection is the last event of its round.  The
\* revision is read only after the whole batch was processed, the renter's
\* signature only right after the acceptance of the revision was written, and
\* the host's signature only right after the final acceptance was written.
C16_WireOrder ==
    \A s \in Sessions :
        /\ Len(wire[s]) <= Len(RoundOrder)
        /\ \A i \in 1..Len(wire[s]) :
              \/ wire[s][i].ev = RoundOrder[i]
              \/ /\ wire[s][i].ev = "WriteRejection"
                 /\ i = Len(wire[s])
                 /\ i \in RejectionPlaces
        /\ (Happened(s, "ReadRevision") /\ pc[s] \in {"renterSig", "commit", "hostSig"})
              => /\ rnd[s].k = rnd[s].modLen
                 /\ rejection[s] = Nil
        /\ Happened(s, "ReadRenterSig")
              => /\ wire[s][FirstAt(s, "ReadRenterSig") - 1].ev = "WriteAcceptance"
                 /\ wire[s][FirstAt(s, "ReadRenterSig") - 2].ev = "ReadRevision"
        /\ Happened(s, "WriteHostSignature")
              => /\ FirstAt(s, "WriteHostSignature") = Len(RoundOrder)
                 /\ wire[s][Len(RoundOrder) - 1].ev = "WriteAcceptance"

\* a session's second round ran to the host's signature, after a batch of
\* MaxBatch modifications
C16_Witness ==
    \E s \in Sessions :
        /\ rounds = 2 /\ locks[s] = 1 /\ pc[s] = "loop"
        /\ roundStart[s].ConfirmedRevenue > 0
        /\ rnd[s].k = MaxBatch
        /\ [i \in 1..Len(wire[s]) |-> wire[s][i].ev] = RoundOrder

\* how often hash h occurs in the list
Count(list, h) == Cardinality({i \in 1..Len(list) : list[i] = h})

\* C17: a round that commits adds its own deltas to the obligation:
\* AnticipatedRevenue grows by the round's storageRevenue, ConfirmedRevenue by
\* its bandwidthRevenue, RiskedCollateral by its collateralRisked, and the
\* removed and gained hashes and gained payloads handed to
\* modifyStorageObligation are those of this round's batch: they account for
\* the change of the sector list over the round, one gained payload per gained
\* hash.  Every round starts with accumulators that are zero and empty, so
\* nothing of an earlier round is counted again.
C17_CommitAddsRoundDeltas ==
    \A s \in Sessions :
        /\ pc[s] \in {"settings", "acceptance", "modifications"} =>
              /\ rnd[s].bandwidthRevenue = 0
              /\ rnd[s].storageRevenue = 0
              /\ rnd[s].collateralRisked = 0
              /\ rnd[s].sectorsRemoved = <<>>
              /\ rnd[s].sectorsGained = <<>>
              /\ rnd[s].gainedSectorData = <<>>
        /\ pc[s] = "hostSig" =>
              /\ so[s].AnticipatedRevenue =
                    roundStart[s].AnticipatedRevenue + rnd[s].storageRevenue
              /\ so[s].ConfirmedRevenue =
                    roundStart[s].ConfirmedRevenue + rnd[s].bandwidthRevenue
              /\ so[s].RiskedCollateral =
                    roundStart[s].RiskedCollateral + rnd[s].collateralRisked
              /\ db = so[s]
              /\ \A h \in Hashes :
                    Count(roundStart[s].SectorRoots, h) + Count(rnd[s].sectorsGained, h)
                        = Count(so[s].SectorRoots, h) + Count(rnd[s].sectorsRemoved, h)
              /\ Len(rnd[s].gainedSectorData) = Len(rnd[s].sectorsGained)
              /\ \A i \in 1..Len(rnd[s].sectorsGained) :
                    MerkleRoot(rnd[s].gainedSectorData[i]) = rnd[s].sectorsGained[i]
              /\ Len(rnd[s].sectorsGained) <= rnd[s].modLen
              /\ rnd[s].bandwidthRevenue =
                    UploadPrice * SectorSize * Len(rnd[s].sectorsGained)

\* the second round of a session committed, after a first round that gained
\* bandwidth revenue and changed a sector
C17_Witness ==
    \E s \in Sessions :
        /\ pc[s] = "hostSig" /\ rounds = 2
        /\ roundStart[s].ConfirmedRevenue > 0
        /\ roundStart[s].SectorRoots # InitialRoots
        /\ rnd[s].bandwidthRevenue > 0
        /\ so[s].ConfirmedRevenue > roundStart[s].ConfirmedRevenue

\* C18: the host's signature is written only in a round in which, in this
\* order, the batch was processed without error, verifyRevision accepted the
\* revision, the signed transaction passed StandaloneValid, the renter's
\* signature did not cover the whole transaction and modifyStorageObligation
\* succeeded: the renter never holds a host signature for a revision whose
\* sector changes the host did not commit.
C18_SignatureOnlyAfterCommit ==
    \A s \in Sessions :
        Happened(s, "WriteHostSignature") =>
            /\ pc[s] \in {"loop", "return", "done"}
            /\ ret[s] = Nil
            /\ rejection[s] = Nil
            /\ ~Happened(s, "WriteRejection")
            /\ pc[s] \in {"loop", "return"} =>
                  /\ rnd[s].k = rnd[s].modLen
                  /\ rnd[s].passed = <<"verifyRevision", "StandaloneValid",
                                       "CoveredFields", "modifyStorageObligation">>
                  /\ rnd[s].committed
                  /\ db = so[s]
                  /\ lastRevision = rnd[s].revision

\* the host's signature was written for a round that removed a sector
C18_Witness ==
    \E s \in Sessions :
        /\ Happened(s, "WriteHostSignature") /\ pc[s] = "loop"
        /\ rnd[s].sectorsRemoved # <<>>
        /\ db.SectorRoots # InitialRoots

\* C19: no update is lost across sessions: every round a session runs up to
\* its commit is computed from the obligation as the most recently committed
\* round of any session left it, so no session commits on top of a snapshot
\* that another session's commit has made stale.
C19_NoLostUpdate ==
    \A s \in Sessions :
        pc[s] = "commit" => roundStart[s] = db

\* C20: for an Insert processed at any block height the number of blocks
\* accounted for is at most proofDeadline: the storage revenue and the
\* collateral the Insert accrues are at most those of proofDeadline blocks of
\* one sector.
C20_BlocksNeverWrap ==
    ValidInsert =>
        /\ rnd[1].storageRevenue <= StoragePrice * ProofDeadline * SectorSize
        /\ rnd[1].collateralRisked <= CollateralPrice * ProofDeadline * SectorSize

====
